---------------------------- MODULE Spec2Model ----------------------------
(***************************************************************************)
(* The balance-change event pipeline of wallet-keeper's eth client         *)
(* (keeper/eth/client.go): NewClient's seed of accountBalanceMap, the      *)
(* accountBalanceWatcher goroutine and its refreshFunc, CreateAccount, the *)
(* /notifiers routes, and the notifier package (event channel, receiver    *)
(* registry, dispatcher, delivery) that client.go drives.                  *)
(*                                                                         *)
(* float64 balances are small naturals (the code compares them with !=     *)
(* only); addresses are positive naturals, the empty string is 0.  A write *)
(* of a map that races with the watcher's unlocked reads either lands or   *)
(* ends the process with the runtime's fatal error (crashed).              *)
(***************************************************************************)
EXTENDS Naturals, Sequences, FiniteSets, TLC

\* ------------------------------------------------------------- bounds
MaxBalance == 1
MaxTicks == 1
BusCap == 1
MaxInstalls == 2
MaxRetry == 2

Accounts == {"alice", "bob"}
\* the accounts of the account file that loadAccountMap reads
Loaded == {"alice"}
Balances == 0..MaxBalance
\* the request handlers that call CreateAccount, one call each
Creators == {"h1", "h2"}
\* no account, no result
None == "none"

VARIABLES
    accountAddressMap,  \* Client.accountAddressMap: account -> address
    accountBalanceMap,  \* Client.accountBalanceMap: account -> balance
    frames,             \* live activations of refreshFunc (goroutine frames)
    started,            \* accountBalanceWatcher made its first refreshFunc call
    tickPending,        \* ticker.C holds a tick (a channel of capacity 1)
    ticks,              \* ticks the ticker has fired
    creators,           \* one CreateAccount call per request handler
    nextAddr,           \* the next address store.NewAccount hands out
    crashed,            \* the runtime threw "concurrent map iteration and map write"
    eventChan,          \* notifier's event channel
    receivers,          \* notifier's receiver registry: id -> receiver
    nextId,             \* the next uuid
    deliveries,         \* delivery tasks the dispatcher started
    \* history, never read by the program
    published,          \* how many events were sent on eventChan
    consumed,           \* how many events the dispatcher received
    lastNew,            \* per account, <<b>>: newBalance of the last event sent for it
    seedBalance,        \* per account, what NewClient or CreateAccount last stored
    returned,           \* per account, the balances getBalance returned without error
    prevReading,        \* per account, <<b>>: the watcher's previous successful reading
    requests,           \* per receiver id, the retryCount of its install request
    installLog,         \* <<r>>: the last install request and what the handler did
    observe             \* whether returned, prevReading and installLog are kept

vars == <<accountAddressMap, accountBalanceMap, frames, started, tickPending,
          ticks, creators, nextAddr, crashed, eventChan, receivers, nextId,
          deliveries, published, consumed, lastNew, seedBalance, returned, prevReading,
          requests, installLog, observe>>

clientVars == <<accountAddressMap, accountBalanceMap, creators, nextAddr>>
watcherVars == <<frames, started, tickPending, ticks>>
notifierVars == <<receivers, nextId, deliveries, requests, installLog>>
busVars == <<eventChan, published, consumed, lastNew>>
histVars == <<seedBalance, returned, prevReading, observe>>

\* ------------------------------------------------------------ helpers
\* f with key k set to v, k added when absent (a Go map assignment)
MapSet(f, k, v) == [x \in DOMAIN f \cup {k} |-> IF x = k THEN v ELSE f[x]]

\* getBalance (the rpc call is external): (balance, nil), or (0, err)
getBalance ==
    {[balance |-> b, err |-> FALSE] : b \in Balances} \cup {[balance |-> 0, err |-> TRUE]}

\* the first address of the account file
FirstAddr == 1

\* NewClient has returned: the account file is loaded and every loaded account
\* has its snapshot entry from one getBalance call (lines 130-136), 0 when the
\* call failed
Constructed(o) ==
    /\ observe = o
    /\ accountAddressMap = [a \in Loaded |-> FirstAddr]
    /\ \E seed \in [Loaded -> getBalance] :
          /\ accountBalanceMap = [a \in Loaded |-> seed[a].balance]
          /\ seedBalance = [a \in Loaded |-> seed[a].balance]
          /\ returned = [a \in Accounts |->
                           IF o /\ a \in Loaded /\ ~seed[a].err
                           THEN {seed[a].balance} ELSE {}]
    /\ frames = <<>>
    /\ started = FALSE
    /\ tickPending = FALSE
    /\ ticks = 0
    /\ creators = [c \in Creators |-> [pc |-> "idle", account |-> None, addr |-> 0, result |-> None]]
    /\ nextAddr = FirstAddr + 1
    /\ crashed = FALSE
    /\ eventChan = <<>>
    /\ receivers = <<>>
    /\ nextId = 1
    /\ deliveries = {}
    /\ published = 0
    /\ consumed = 0
    /\ lastNew = [a \in Accounts |-> <<>>]
    /\ prevReading = [a \in Accounts |-> <<>>]
    /\ requests = <<>>
    /\ installLog = <<>>

Init == Constructed(FALSE)

\* the same client, with the observer's records kept
ObservedInit == Constructed(TRUE)

\* ---------------------------------------------- accountBalanceWatcher
\* a fresh activation of refreshFunc: the range over accountBalanceMap begins
NewFrame ==
    [pc |-> "range", start |-> DOMAIN accountBalanceMap, visited |-> {},
     account |-> None, address |-> 0, balance |-> 0, newBalance |-> 0, err |-> FALSE]

\* a bug: "go refreshFunc()", the select is reached while a sweep is in progress
CanCallRefresh_Spawned == Len(frames) < 2

\* refreshFunc is called, not spawned: the watcher goroutine reaches its select
\* (and its first call) only when no activation of refreshFunc is live
CanCallRefresh == frames = <<>>

\* lines 433, 462: the goroutine starts: the ticker is made, then the first
\* refreshFunc(), before the select loop
WatcherStart ==
    /\ ~crashed /\ ~started
    /\ CanCallRefresh
    /\ started' = TRUE
    /\ frames' = Append(frames, NewFrame)
    /\ UNCHANGED <<tickPending, ticks, clientVars, crashed, busVars, notifierVars, histVars>>

\* the runtime's ticker: ticker.C has room for one tick, a tick that finds it
\* full is dropped
TickerFire ==
    /\ ~crashed /\ started
    /\ ticks < MaxTicks
    /\ ticks' = ticks + 1
    /\ tickPending' = TRUE
    /\ UNCHANGED <<frames, started, clientVars, crashed, busVars, notifierVars, histVars>>

\* lines 464-468: case <-ticker.C: refreshFunc()
WatcherTick ==
    /\ ~crashed /\ started
    /\ tickPending
    /\ CanCallRefresh
    /\ tickPending' = FALSE
    /\ frames' = Append(frames, NewFrame)
    /\ UNCHANGED <<started, ticks, clientVars, crashed, busVars, notifierVars, histVars>>

\* the frame moves on to the next key of the range
NextKey(f) ==
    [f EXCEPT !.pc = "range", !.visited = f.visited \cup {f.account}, !.account = None,
              !.address = 0, !.balance = 0, !.newBalance = 0, !.err = FALSE]

\* lines 436-438: the range yields a key not yet produced (in any order; a key
\* added since the range began may be produced or skipped), with its value, and
\* the address is looked up
RangeNext(i) ==
    /\ ~crashed
    /\ i \in DOMAIN frames
    /\ frames[i].pc = "range"
    /\ \E k \in DOMAIN accountBalanceMap \ frames[i].visited :
          LET f == [frames[i] EXCEPT !.account = k, !.balance = accountBalanceMap[k]]
          IN  frames' = [frames EXCEPT ![i] =
                 IF k \in DOMAIN accountAddressMap
                 THEN [f EXCEPT !.pc = "lookup", !.address = accountAddressMap[k]]
                 ELSE NextKey(f)]
    /\ UNCHANGED <<started, tickPending, ticks, clientVars, crashed, busVars,
                   notifierVars, histVars>>

\* the range is over once every key it began with has been produced: refreshFunc returns
RangeEnd(i) ==
    /\ ~crashed
    /\ i \in DOMAIN frames
    /\ frames[i].pc = "range"
    /\ (frames[i].start \cap DOMAIN accountBalanceMap) \subseteq frames[i].visited
    /\ frames' = SubSeq(frames, 1, i - 1) \o SubSeq(frames, i + 1, Len(frames))
    /\ UNCHANGED <<started, tickPending, ticks, clientVars, crashed, busVars,
                   notifierVars, histVars>>

\* lines 440-445: an error is logged and nothing else: the comparison that
\* follows sees the 0 that getBalance returned beside it
Changed(f, r) == f.balance # r.balance

\* a bug: the snapshot is stored first and the event sent after it
ChangedBranchOrder_StoreFirst(pc) ==
    CASE pc = "lookup" -> "store"
      [] pc = "store" -> "send"
      [] pc = "send" -> "range"

\* lines 445-457: in the branch of a changed balance the event is sent first and
\* the snapshot is stored after it; then the range goes on
ChangedBranchOrder(pc) ==
    CASE pc = "lookup" -> "send"
      [] pc = "send" -> "store"
      [] pc = "store" -> "range"

\* the frame takes its next step in the changed branch
Advance(f) ==
    LET n == ChangedBranchOrder(f.pc)
    IN  IF n = "range" THEN NextKey(f) ELSE [f EXCEPT !.pc = n]

\* lines 439-445: getBalance, the log of an error, the comparison
Lookup(i) ==
    /\ ~crashed
    /\ i \in DOMAIN frames
    /\ frames[i].pc = "lookup"
    /\ \E r \in getBalance :
          LET f == [frames[i] EXCEPT !.newBalance = r.balance, !.err = r.err]
              a == f.account
          IN  /\ frames' = [frames EXCEPT ![i] =
                    IF Changed(f, r) THEN Advance(f) ELSE NextKey(f)]
              /\ returned' = IF r.err \/ ~observe THEN returned
                             ELSE [returned EXCEPT ![a] = @ \cup {r.balance}]
              /\ prevReading' = IF r.err \/ Changed(f, r) \/ ~observe THEN prevReading
                                ELSE [prevReading EXCEPT ![a] = <<r.balance>>]
    /\ UNCHANGED <<started, tickPending, ticks, clientVars, crashed, busVars,
                   notifierVars, seedBalance, observe>>

\* lines 446-451: the event and its payload; timestamp is the event's place in
\* the order of publication
NewEthBalanceChangeEvent(f, timestamp) ==
    [account |-> f.account, address |-> f.address,
     newBalance |-> f.newBalance, balance |-> f.balance, timestamp |-> timestamp]

\* a bug: "select { case ch <- e: default: }", a full channel drops the event
ChanSend_Drop(ch, e) == IF Len(ch) < BusCap THEN {Append(ch, e)} ELSE {ch}

\* line 452: a channel send: the channels it may leave behind, none while the
\* channel is full (the sender waits)
ChanSend(ch, e) == IF Len(ch) < BusCap THEN {Append(ch, e)} ELSE {}

\* line 452: client.noti.EventChan() <- event
Send(i) ==
    /\ ~crashed
    /\ i \in DOMAIN frames
    /\ frames[i].pc = "send"
    /\ \E ch \in ChanSend(eventChan, NewEthBalanceChangeEvent(frames[i], published + 1)) :
          eventChan' = ch
    /\ published' = published + 1
    /\ lastNew' = [lastNew EXCEPT ![frames[i].account] = <<frames[i].newBalance>>]
    /\ frames' = [frames EXCEPT ![i] = Advance(frames[i])]
    /\ UNCHANGED <<started, tickPending, ticks, clientVars, crashed, consumed,
                   notifierVars, histVars>>

\* lines 454-456: under accountBalanceLock, the snapshot takes the new balance
Store(i) ==
    /\ ~crashed
    /\ i \in DOMAIN frames
    /\ frames[i].pc = "store"
    /\ accountBalanceMap' = MapSet(accountBalanceMap, frames[i].account, frames[i].newBalance)
    /\ frames' = [frames EXCEPT ![i] = Advance(frames[i])]
    /\ prevReading' = IF frames[i].err \/ ~observe THEN prevReading
                      ELSE [prevReading EXCEPT ![frames[i].account] = <<frames[i].newBalance>>]
    /\ UNCHANGED <<started, tickPending, ticks, accountAddressMap, creators, nextAddr,
                   crashed, busVars, notifierVars, seedBalance, returned, observe>>

\* ------------------------------------------------------- CreateAccount
\* lines 166-173: GetAddress, "" beside ErrAccountNotFound
GetAddress(account) ==
    IF account \in DOMAIN accountAddressMap THEN accountAddressMap[account] ELSE 0

\* lines 177-180: if len(address) > 0 the account exists
AccountExists(account) == GetAddress(account) > 0

SetCreator(c, pc, result) ==
    creators' = [creators EXCEPT ![c].pc = pc, ![c].result = result]

\* lines 176-185: the call, its check, which reads accountAddressMap without
\* accountAddressLock, and store.NewAccount: a fresh key and address, or an
\* error (the keystore is the call's own: one step with the check)
CreateCheck(c, account) ==
    /\ ~crashed
    /\ creators[c].pc = "idle"
    /\ IF AccountExists(account)
       THEN /\ creators' = [creators EXCEPT ![c] =
                  [pc |-> "done", account |-> account, addr |-> 0,
                   result |-> "ErrAccountExists"]]
            /\ UNCHANGED nextAddr
       ELSE \E created \in BOOLEAN :
               /\ creators' = [creators EXCEPT ![c] =
                     IF created
                     THEN [pc |-> "lockAddress", account |-> account, addr |-> nextAddr,
                           result |-> None]
                     ELSE [pc |-> "done", account |-> account, addr |-> 0, result |-> "err"]]
               /\ nextAddr' = IF created THEN nextAddr + 1 ELSE nextAddr
    /\ UNCHANGED <<accountAddressMap, accountBalanceMap, watcherVars,
                   crashed, busVars, notifierVars, histVars>>

\* a write of a map that a live activation of refreshFunc reads without the
\* lock is a data race
Races == frames # <<>>

\* lines 187-189: accountAddressMap[account] = address, under accountAddressLock;
\* refreshFunc reads the map at line 437 without the lock
CreateStoreAddress(c) ==
    /\ ~crashed
    /\ creators[c].pc = "lockAddress"
    /\ \/ /\ accountAddressMap' = MapSet(accountAddressMap, creators[c].account, creators[c].addr)
          /\ creators' = [creators EXCEPT ![c].pc = "lockBalance"]
          /\ UNCHANGED crashed
       \/ /\ Races
          /\ crashed' = TRUE
          /\ UNCHANGED <<accountAddressMap, creators>>
    /\ UNCHANGED <<accountBalanceMap, nextAddr, watcherVars, busVars, notifierVars, histVars>>

\* lines 191-206: accountBalanceMap[account] = 0, under accountBalanceLock
\* (refreshFunc ranges over the map at line 436 without the lock), then
\* persistAccountMap and the account, or its error
CreateStoreBalance(c) ==
    /\ ~crashed
    /\ creators[c].pc = "lockBalance"
    /\ \/ /\ accountBalanceMap' = MapSet(accountBalanceMap, creators[c].account, 0)
          /\ seedBalance' = MapSet(seedBalance, creators[c].account, 0)
          /\ \E result \in {"ok", "err"} : SetCreator(c, "done", result)
          /\ UNCHANGED crashed
       \/ /\ Races
          /\ crashed' = TRUE
          /\ UNCHANGED <<accountBalanceMap, seedBalance, creators>>
    /\ UNCHANGED <<accountAddressMap, nextAddr, watcherVars, busVars, notifierVars,
                   returned, prevReading, observe>>

\* ---------------------------------------------------- /notifiers routes
\* strings are sequences of characters; "b" is the type of the balance event
Comma == ","
BalanceEventType == <<"b">>

RECURSIVE SplitAcc(_, _, _)
SplitAcc(s, cur, out) ==
    IF s = <<>> THEN Append(out, cur)
    ELSE IF Head(s) = Comma THEN SplitAcc(Tail(s), <<>>, Append(out, cur))
    ELSE SplitAcc(Tail(s), Append(cur, Head(s)), out)

\* strings.SplitN(s, ",", -1): every piece between commas, [""] for ""
SplitN(s) == SplitAcc(s, <<>>, <<>>)

\* the bodies an install request may carry: one that binds, with its fields,
\* and one that does not
Endpoints == {"", "::not a url", "http://callbackdomain.com/foo/bar"}
EventTypeStrings == {<<>>, <<"o", Comma, "b">>}
InstallRequests ==
    {[binds |-> TRUE, endpoint |-> e, eventTypes |-> t, retryCount |-> r] :
        e \in Endpoints, t \in EventTypeStrings, r \in 0..MaxRetry}
    \cup {[binds |-> FALSE, endpoint |-> "", eventTypes |-> <<>>, retryCount |-> 0]}

\* the requests among them that bind and name a URL
WellFormedRequests ==
    {req \in InstallRequests :
        req.binds /\ req.endpoint = "http://callbackdomain.com/foo/bar"}

\* c.ShouldBind(&installParams) == nil
ShouldBind(req) == req.binds

\* notifier.NewReceiver(endpoint, eventTypes, retryCount)
NewReceiver(endpoint, eventTypes, retryCount) ==
    [endpoint |-> endpoint, eventTypes |-> eventTypes, retryCount |-> retryCount]

\* a bug: one retry more than the request asked for is handed to NewReceiver
ReceiverOf_ExtraRetry(req) ==
    NewReceiver(req.endpoint, SplitN(req.eventTypes), req.retryCount + 1)

\* lines 357-361: the receiver the handler builds from the bound parameters
ReceiverOf(req) == NewReceiver(req.endpoint, SplitN(req.eventTypes), req.retryCount)

\* the handlers write no response: gin answers 200 with an empty body
StatusOK == 200

\* lines 349-366: POST /notifiers/install
Install(req) ==
    /\ ~crashed
    /\ nextId <= MaxInstalls
    /\ IF ShouldBind(req)
       THEN /\ receivers' = MapSet(receivers, nextId, ReceiverOf(req))
            /\ requests' = MapSet(requests, nextId, req.retryCount)
            /\ nextId' = nextId + 1
       ELSE UNCHANGED <<receivers, requests, nextId>>
    /\ installLog' = IF observe
                     THEN <<[req |-> req, status |-> StatusOK, stored |-> ShouldBind(req)]>>
                     ELSE installLog
    /\ UNCHANGED <<deliveries, clientVars, watcherVars, crashed, busVars, histVars>>

\* lines 368-376: POST /notifiers/uninstall; a name that is not installed, or
\* a body that does not bind, changes nothing
Uninstall(name) ==
    /\ ~crashed
    /\ name \in DOMAIN receivers
    /\ receivers' = [id \in DOMAIN receivers \ {name} |-> receivers[id]]
    /\ UNCHANGED <<nextId, deliveries, requests, installLog, clientVars, watcherVars,
                   crashed, busVars, histVars>>

\* ------------------------------------------------- notifier (dispatcher)
\* a receiver matches an event iff the event's type is one of its types
Matches(receiver, type) ==
    \E i \in DOMAIN receiver.eventTypes : receiver.eventTypes[i] = type

\* the attempts a delivery may make: one, and the receiver's retries
AttemptBudget(retryCount) == 1 + retryCount

\* the dispatcher receives the next event, lists the registry and starts one
\* delivery per matching receiver, without waiting for any
Dispatch ==
    /\ ~crashed
    /\ eventChan # <<>>
    /\ eventChan' = Tail(eventChan)
    /\ consumed' = consumed + 1
    /\ deliveries' = deliveries \cup
          {[event |-> Head(eventChan).timestamp, receiver |-> id,
            budget |-> AttemptBudget(receivers[id].retryCount),
            log |-> <<>>, status |-> "running"] :
              id \in {x \in DOMAIN receivers : Matches(receivers[x], BalanceEventType)}}
    /\ UNCHANGED <<published, lastNew, receivers, nextId, requests, installLog,
                   clientVars, watcherVars, crashed, histVars>>

\* one attempt of a delivery: a POST that succeeds or fails; after a success
\* or with the budget used up the delivery ends
Attempt(d) ==
    /\ ~crashed
    /\ d \in deliveries
    /\ d.status = "running"
    /\ \E ok \in BOOLEAN :
          LET log == Append(d.log, ok)
              status == IF ok THEN "delivered"
                        ELSE IF Len(log) >= d.budget THEN "abandoned" ELSE "running"
          IN  deliveries' = (deliveries \ {d}) \cup {[d EXCEPT !.log = log, !.status = status]}
    /\ UNCHANGED <<receivers, nextId, requests, installLog, clientVars, watcherVars,
                   crashed, busVars, histVars>>

\* the delivery has logged its outcome: the task ends
Finish(d) ==
    /\ ~crashed
    /\ d \in deliveries
    /\ d.status # "running"
    /\ deliveries' = deliveries \ {d}
    /\ UNCHANGED <<receivers, nextId, requests, installLog, clientVars, watcherVars,
                   crashed, busVars, histVars>>

\* ------------------------------------------------------ specifications
\* the watcher goroutine up to its first wait for the ticker, and its sweeps
SweepNext ==
    \/ WatcherStart
    \/ \E i \in DOMAIN frames : RangeNext(i)
    \/ \E i \in DOMAIN frames : RangeEnd(i)
    \/ \E i \in DOMAIN frames : Lookup(i)
    \/ \E i \in DOMAIN frames : Send(i)
    \/ \E i \in DOMAIN frames : Store(i)

\* the watcher goroutine and the ticker
WatcherNext == SweepNext \/ TickerFire \/ WatcherTick

\* one handler's CreateAccount call
CreateBy(c) ==
    \/ \E a \in Accounts : CreateCheck(c, a)
    \/ CreateStoreAddress(c)
    \/ CreateStoreBalance(c)

\* the /notifiers requests, the install requests drawn from reqs, and the
\* deliveries
NotifierNext(reqs) ==
    \/ \E req \in reqs : Install(req)
    \/ \E name \in DOMAIN receivers : Uninstall(name)
    \/ \E d \in deliveries : Attempt(d)
    \/ \E d \in deliveries : Finish(d)

\* the client with no receiver installed: watcher, concurrent CreateAccount
\* calls, dispatcher
Next == WatcherNext \/ (\E c \in Creators : CreateBy(c)) \/ Dispatch

Spec == Init /\ [][Next]_vars

\* the same, observed
ObservedSpec == ObservedInit /\ [][Next]_vars

\* the client with one CreateAccount call; the dispatcher goroutine (line 138)
\* runs whenever an event waits for it
FairNext == WatcherNext \/ CreateBy("h1") \/ Dispatch

FairSpec == Init /\ [][FairNext]_vars /\ WF_vars(Dispatch)

\* the client in its first watcher interval, with no CreateAccount call and
\* well-formed install requests: the first sweep, /notifiers requests,
\* dispatcher, deliveries
NotifierSpecNext == SweepNext \/ NotifierNext(WellFormedRequests) \/ Dispatch

NotifierSpec == Init /\ [][NotifierSpecNext]_vars

\* the same with every install request, observed
ObservedNotifierNext == SweepNext \/ NotifierNext(InstallRequests) \/ Dispatch

ObservedNotifierSpec == ObservedInit /\ [][ObservedNotifierNext]_vars

\* ------------------------------------------------------------- claims
\* the seeded value of a snapshot entry: NewClient's seed, or the 0
\* CreateAccount stores
Seeded(a) == seedBalance[a]

\* the most events the watcher can send: one per account and sweep
MaxEvents == (1 + MaxTicks) * Cardinality(Accounts)

\* C1: every event the watcher sends for an account carries as new balance a
\* reading it obtained (a lookup without error) and as old balance the reading
\* before it, and is sent only when the two differ.
C1_DiffCorrectness ==
    \A i \in DOMAIN frames :
        frames[i].pc = "store" =>
            /\ ~frames[i].err
            /\ prevReading[frames[i].account] # <<>> =>
                  /\ frames[i].balance = prevReading[frames[i].account][1]
                  /\ frames[i].newBalance # prevReading[frames[i].account][1]

\* C2: when getBalance fails for an account, the sweep sends no event for it
\* and leaves its snapshot entry alone: no activation whose lookup failed has
\* sent an event and is about to store.
C2_NoOpOnLookupError ==
    \A i \in DOMAIN frames : frames[i].err => frames[i].pc # "store"

\* the channel holds, in order, exactly the events sent and not yet received,
\* and never more than its capacity
BusConserved ==
    /\ Len(eventChan) <= BusCap
    /\ published = consumed + Len(eventChan)
    /\ \A j \in DOMAIN eventChan : eventChan[j].timestamp = consumed + j

\* C3: the send blocks on a full channel and drops or overwrites nothing; with
\* the dispatcher running, every event sent is received, once, in order
\* (as long as the process lives).
C3_Backpressure ==
    /\ []BusConserved
    /\ \A k \in 1..MaxEvents : (published >= k) ~> (consumed >= k \/ crashed)

\* the watcher waits on a full channel after the dispatcher has received events
C3_Witness ==
    /\ consumed >= 1
    /\ Len(eventChan) = BusCap
    /\ \E i \in DOMAIN frames : frames[i].pc = "send"

\* C4: at most one sweep is in progress at any instant; a tick that arrives
\* during a sweep waits in ticker.C until the sweep has returned.
C4_NoOverlappingSweeps == Len(frames) <= 1

\* a tick waits while the sweep is blocked on the full channel
C4_Witness ==
    /\ tickPending
    /\ Len(eventChan) = BusCap
    /\ \E i \in DOMAIN frames : frames[i].pc = "send"

\* C5: only the watcher writes the snapshot: while a sweep is in progress no
\* step of another task changes accountBalanceMap.
C5_SingleWriter ==
    [][(frames # <<>> /\ accountBalanceMap' # accountBalanceMap) => frames' # frames]_vars

\* an endpoint that is a URL
IsURL(endpoint) == endpoint = "http://callbackdomain.com/foo/bar"

\* an install request that must be rejected
Malformed(req) == ~req.binds \/ ~IsURL(req.endpoint)

\* C6: a malformed install request is answered with a client error and stores
\* no receiver.
C6_InstallValidation ==
    \A j \in DOMAIN installLog :
        Malformed(installLog[j].req) =>
            /\ ~installLog[j].stored
            /\ installLog[j].status >= 400

\* C7: the old balance of every event sent was returned, without error, by an
\* earlier lookup for that account.
C7_SeedSweep ==
    \A i \in DOMAIN frames :
        frames[i].pc = "store" => frames[i].balance \in returned[frames[i].account]

\* C8: a delivery for a receiver installed with retryCount r makes at most
\* 1 + r attempts, stops at its first success, and is abandoned exactly when
\* all 1 + r attempts failed.
C8_RetryBudget ==
    \A d \in deliveries :
        LET r == requests[d.receiver]
            n == Len(d.log)
        IN  /\ n <= 1 + r
            /\ \A j \in 1..n : d.log[j] => j = n
            /\ d.status = "delivered" <=> (n >= 1 /\ d.log[n])
            /\ d.status = "abandoned" <=> (n = 1 + r /\ ~d.log[n])

\* a delivery with a retry used every attempt and was abandoned
C8_Witness ==
    \E d \in deliveries :
        /\ requests[d.receiver] >= 1
        /\ d.status = "abandoned"
        /\ Len(d.log) = 1 + requests[d.receiver]

\* the watcher has sent an event for the account and has not stored yet
Storing(a) == \E i \in DOMAIN frames : frames[i].pc = "store" /\ frames[i].account = a

\* the watcher waits on the full channel with an event for the account
Blocked(a) ==
    /\ Len(eventChan) = BusCap
    /\ \E i \in DOMAIN frames : frames[i].pc = "send" /\ frames[i].account = a

\* C9 as claimed: in every state a snapshot entry that differs from its seeded
\* value is the new balance of the last event sent for the account, and while
\* the watcher is blocked the entry holds the old balance of the blocked event.
C9_Original ==
    \A a \in DOMAIN accountBalanceMap :
        /\ accountBalanceMap[a] # Seeded(a) => lastNew[a] = <<accountBalanceMap[a]>>
        /\ \A i \in DOMAIN frames :
              (frames[i].pc = "send" /\ frames[i].account = a /\ Len(eventChan) = BusCap)
                  => accountBalanceMap[a] = frames[i].balance

\* C9 as amended: the event is sent first and the snapshot stored after it:
\* whenever the watcher writes a snapshot entry, the value is the new balance
\* of the last event already sent for the account; and in every state in which
\* the watcher is not between that send and that store, an entry that differs
\* from its seeded value is the new balance of the last event sent for it (so
\* a watcher blocked on the full channel has not written the entry).
C9_PublishBeforeUpdate ==
    /\ [](\A a \in DOMAIN accountBalanceMap :
            (accountBalanceMap[a] # Seeded(a) /\ ~Storing(a))
                => lastNew[a] = <<accountBalanceMap[a]>>)
    /\ [][\A a \in DOMAIN accountBalanceMap :
            (frames' # frames /\ accountBalanceMap'[a] # accountBalanceMap[a])
                => lastNew[a] = <<accountBalanceMap'[a]>>]_vars

\* the watcher is blocked with a second event for an account whose entry holds
\* the new balance of the first
C9_Witness ==
    \E a \in DOMAIN accountBalanceMap :
        /\ Blocked(a)
        /\ accountBalanceMap[a] # Seeded(a)
        /\ lastNew[a] = <<accountBalanceMap[a]>>

\* C10: an account's address, once assigned, never changes.
C10_AddressImmutable ==
    [][\A a \in DOMAIN accountAddressMap :
          a \in DOMAIN accountAddressMap' /\ accountAddressMap'[a] = accountAddressMap[a]]_vars

=============================================================================
